---- MODULE Spec2Model ----
(***************************************************************************)
(* A model of libtock-rs' unit-test fake kernel (unittest/src/kernel) and  *)
(* of the fail-stop layer's use of the async executor (src/lang_items.rs). *)
(*                                                                         *)
(* Five specifications share the module, one per group of state:           *)
(*   Spec         one Kernel's expected-syscall queue and syscall log      *)
(*   SpecThreads  Kernel construction, Rc clones and drops on two threads  *)
(*   SpecBlockOn  executor::block_on driving one task                      *)
(*   SpecSyscalls the raw system calls syscall1, syscall2, syscall4 on ARM *)
(*   SpecFailStop start, panic_handler and cycle_leds with their blink loop*)
(***************************************************************************)
EXTENDS Integers, Sequences, FiniteSets, TLC

\* ------------------------------------------------------------------------
\* Bounds of the model (not program constants).
\* ------------------------------------------------------------------------
MaxExpected == 3
MaxCalls == 3
\* Kernel slots (Kernels alive at once, over all threads) and the largest
\* strong count of one Rc<Kernel>.
MaxKernels == 2
MaxRc == 2
\* Calls of block_on, and polls of tasks over all of them.
MaxBlockOn == 2
MaxPolls == 4
\* The blink loop: LEDs on the board, iterations of the loop, and the polls
\* of one sleep that find it still waiting.
MaxLeds == 2
MaxBlinks == 2
MaxPending == 1

\* ------------------------------------------------------------------------
\* Values
\* ------------------------------------------------------------------------
\* Option<T>: None is the empty sequence, Some(v) the one-element sequence.
None == <<>>
Some(v) == <<v>>

\* The system calls a test can make, and the canned responses an expectation
\* can carry.
Calls == {"command", "subscribe"}
Responses == {"ok", "fail"}

\* ExpectedSyscall: an anticipated call and the response returned on a match.
ExpectedSyscall == [call : Calls, response : Responses]

\* SyscallLogEntry: the record of one call actually made.
SyscallLogEntry == Calls

\* The threads running tests, and the names tests give their kernels.
Threads == {"T1", "T2"}
Names == {"A", "B"}

\* Heap slots holding a Kernel behind an Rc; 0 stands for "no kernel"
\* (an empty thread-local).
KernelIds == 1 .. MaxKernels
NoKernel == [live |-> FALSE, name |-> "", thread |-> "", strong |-> 0]

\* The tasks (futures) of a process, and the values a task can complete with.
Tasks == {"blink", "other"}
Values == {"v1", "v2"}

\* core::task::Poll<T>
Pending == None
Ready(v) == Some(v)

\* The ARM registers that carry a system call's arguments and results, in
\* slot order, and the words a register can hold.
Regs == <<"r0", "r1", "r2", "r3">>
RegNames == {Regs[i] : i \in 1..Len(Regs)}
Words == {0, 1}

\* The system call classes (the immediate of the svc instruction).
Classes == {1, 2}

\* What the kernel's trap handler does to each register: None, it leaves
\* the register unmodified; Some(w), it writes the word w into it.
Handlers == [RegNames -> {None} \cup {Some(w) : w \in Words}]

\* The status code panic_handler signals, the length of one sleep of the
\* blink loop in milliseconds, and the value start returns.
PanicStatusCode == 1
SleepMs == 100
StartReturns == 0

\* What main can return: () or a TockResult<()>.
MainResults == {"unit", "Ok", "Err"}

\* What the hardware answers to the step a handler takes: whether the timer
\* context is created, the driver activated, the LED switched, and how a
\* poll of the sleep finds it.
Env == [context : BOOLEAN, activate : BOOLEAN, led : BOOLEAN,
        sleep : {"pending", "ok", "err"}]

\* One observable event of a handler.
Event(kind, arg) == [kind |-> kind, arg |-> arg]

VARIABLES
    \* struct Kernel (one instance): the two Cell fields
    expected_syscalls,   \* VecDeque<ExpectedSyscall>, front first
    syscall_log,         \* Vec<SyscallLogEntry>
    \* history of the test's interaction with that Kernel
    added,               \* every entry passed to add_expected_syscall, in order
    popped,              \* every Some(e) returned by pop_expected_syscall, in order
    made,                \* the calls made since the last take_syscall_log
    ncalls,              \* number of calls made so far
    nonempty_calls,      \* ... of which made while the queue was nonempty
    qlast,               \* the last operation and what it returned
    \* Kernels and threads
    kernels,             \* slot -> the Kernel in it: name, owning thread, strong count
    thread_kernel,       \* thread -> the slot of the kernel bound to it, or 0
    cycles,              \* new/release cycles completed (counted up to 2)
    given,               \* slot -> the name passed to the Kernel::new that filled it
    klast,               \* the last operation on a handle and what it returned
    \* executor::block_on
    bpc,                 \* where block_on is: "idle", "poll", "yield" or "returned"
    btask,               \* the task passed to the block_on in progress
    bret,                \* what the last block_on returned
    events,              \* the polls, yield traps and returns so far, in order
    \* raw system calls
    sc,                  \* the system call in progress or last returned
    \* program start and the fatal-error handlers
    fstate,              \* "NotStarted", "Running", "Completed", "Panicked", "OutOfMemory"
    main_calls,          \* number of times main was invoked
    status,              \* what start returned and what main had returned, once start has
    h,                   \* the frame of the handler that runs
    twin                 \* the frame of the other handler, given the same hardware answers

qvars == <<expected_syscalls, syscall_log, added, popped, made, ncalls,
           nonempty_calls, qlast>>

kvars == <<kernels, thread_kernel, cycles, given, klast>>

bvars == <<bpc, btask, bret, events>>

svars == <<sc>>

fvars == <<fstate, main_calls, status, h, twin>>

vars == <<qvars, kvars, bvars, svars, fvars>>

\* ------------------------------------------------------------------------
\* Kernel's queue and log operations (pure: the Cell's old content in, the
\* new content and the return value out).
\* ------------------------------------------------------------------------

\* A variant of add_expected_syscall that pushes at the front of the queue.
add_expected_syscall_push_front(cell, expected_syscall) ==
    <<expected_syscall>> \o cell

\* Kernel::add_expected_syscall: take the queue, push_back, set it again.
add_expected_syscall(cell, expected_syscall) ==
    LET queue == cell
    IN  Append(queue, expected_syscall)

\* A variant of take_syscall_log that returns a snapshot and keeps the log.
take_syscall_log_snapshot(cell) ==
    [ret |-> cell, cell |-> cell]

\* Kernel::take_syscall_log: Cell::take returns the content and leaves
\* Default::default() (the empty Vec) behind.
take_syscall_log(cell) ==
    [ret |-> cell, cell |-> <<>>]

\* A variant of log_syscall that inserts the entry at the front of the log.
log_syscall_insert_front(cell, syscall) ==
    <<syscall>> \o cell

\* Kernel::log_syscall: take the log, push, set it again.
log_syscall(cell, syscall) ==
    LET log == cell
    IN  Append(log, syscall)

\* A variant of pop_expected_syscall that pops at the back of the queue.
pop_expected_syscall_pop_back(cell) ==
    IF cell = <<>>
    THEN [ret |-> None, cell |-> cell]
    ELSE [ret |-> Some(cell[Len(cell)]), cell |-> SubSeq(cell, 1, Len(cell) - 1)]

\* A variant of pop_expected_syscall that yields a default entry instead of
\* None when the queue is empty.
pop_expected_syscall_or_default(cell) ==
    IF cell = <<>>
    THEN [ret |-> Some([call |-> "command", response |-> "ok"]), cell |-> cell]
    ELSE [ret |-> Some(Head(cell)), cell |-> Tail(cell)]

\* Kernel::pop_expected_syscall: take the queue, pop_front, set it again,
\* return what pop_front returned (None on an empty queue).
pop_expected_syscall(cell) ==
    LET queue == cell
    IN  IF queue = <<>>
        THEN [ret |-> None, cell |-> queue]
        ELSE [ret |-> Some(Head(queue)), cell |-> Tail(queue)]

\* An intercepted system call, as the fake kernel handles it: the call is
\* logged, the next expectation (if any) is consulted; a match returns the
\* canned response, a mismatch panics, an empty queue passes the call through
\* to the fake drivers.
intercept(queue, log, call) ==
    LET p == pop_expected_syscall(queue)
    IN  [log     |-> log_syscall(log, call),
         queue   |-> p.cell,
         popped  |-> p.ret,
         outcome |-> IF p.ret = None
                     THEN [kind |-> "passthrough"]
                     ELSE IF p.ret[1].call = call
                          THEN [kind |-> "response", value |-> p.ret[1].response]
                          ELSE [kind |-> "panic"]]

\* ------------------------------------------------------------------------
\* Spec: one Kernel's queue and log
\* ------------------------------------------------------------------------
InitQueue ==
    /\ expected_syscalls = <<>>
    /\ syscall_log = <<>>
    /\ added = <<>>
    /\ popped = <<>>
    /\ made = <<>>
    /\ ncalls = 0
    /\ nonempty_calls = 0
    /\ qlast = [op |-> "new"]

AddExpected(e) ==
    /\ Len(added) < MaxExpected
    /\ expected_syscalls' = add_expected_syscall(expected_syscalls, e)
    /\ added' = Append(added, e)
    /\ qlast' = [op |-> "add"]
    /\ UNCHANGED <<syscall_log, popped, made, ncalls, nonempty_calls>>
    /\ UNCHANGED <<kvars, bvars, svars, fvars>>

Syscall(call) ==
    /\ ncalls < MaxCalls
    /\ LET r == intercept(expected_syscalls, syscall_log, call)
       IN  /\ expected_syscalls' = r.queue
           /\ syscall_log' = r.log
           /\ popped' = popped \o r.popped
           /\ qlast' = [op |-> "call", call |-> call,
                        front |-> IF expected_syscalls = <<>> THEN None
                                  ELSE Some(Head(expected_syscalls)),
                        got |-> r.popped,
                        outcome |-> r.outcome]
    /\ made' = Append(made, call)
    /\ ncalls' = ncalls + 1
    /\ nonempty_calls' = nonempty_calls + (IF expected_syscalls = <<>> THEN 0 ELSE 1)
    /\ UNCHANGED added
    /\ UNCHANGED <<kvars, bvars, svars, fvars>>

TakeLog ==
    /\ LET r == take_syscall_log(syscall_log)
       IN  /\ syscall_log' = r.cell
           /\ qlast' = IF qlast.op = "take"
                       THEN [op |-> "take2", first |-> qlast.ret,
                             drained |-> qlast.drained, ret |-> r.ret]
                       ELSE [op |-> "take", drained |-> made, ret |-> r.ret]
    /\ made' = <<>>
    /\ UNCHANGED <<expected_syscalls, added, popped, ncalls, nonempty_calls>>
    /\ UNCHANGED <<kvars, bvars, svars, fvars>>


\* ------------------------------------------------------------------------
\* Kernel construction and teardown
\* ------------------------------------------------------------------------

\* Whether a panic message (a sequence of text pieces) contains `s`.
Contains(message, s) ==
    \E i \in DOMAIN message : message[i] = s

\* A variant of report_leaked whose message leaves the name out.
report_leaked_without_name(name) ==
    <<"The fake::Kernel was never cleaned up; perhaps a Rc<Kernel> was leaked?">>

\* Kernel::report_leaked: never returns; panics with this message, which is
\* formatted from self.name.
report_leaked(name) ==
    <<"The fake::Kernel with name '", name,
      "' was never cleaned up; perhaps a Rc<Kernel> was leaked?">>

\* A variant of clear_kernel that empties one binding shared by all threads.
clear_kernel_process_wide(tk, t) ==
    [u \in Threads |-> 0]

\* thread_local::clear_kernel: unbinds the calling thread's active kernel.
clear_kernel(tk, t) ==
    [tk EXCEPT ![t] = 0]

\* thread_local::set_kernel: binds kernel k to the calling thread t; if a
\* kernel is already bound to t, that previous kernel reports itself leaked
\* (a panic) instead.
set_kernel(tk, ks, t, k) ==
    IF tk[t] # 0
    THEN [panic |-> Some(report_leaked(ks[tk[t]].name)), thread_kernel |-> tk]
    ELSE [panic |-> None, thread_kernel |-> [tk EXCEPT ![t] = k]]

\* A variant of drop that leaves the thread-local alone.
drop_without_clear(tk, t) ==
    tk

\* Drop for Kernel, run on the owning thread when the last Rc goes away.
drop(tk, t) ==
    clear_kernel(tk, t)

\* A variant of Kernel::new that leaves the name field at its default.
Kernel_new_unnamed(tk, ks, t, k, name) ==
    LET rc == [live |-> TRUE, name |-> "", thread |-> t, strong |-> 1]
        s  == set_kernel(tk, [ks EXCEPT ![k] = rc], t, k)
    IN  IF s.panic # None
        THEN [ret |-> None, panic |-> s.panic, kernels |-> ks,
              thread_kernel |-> drop(s.thread_kernel, t)]
        ELSE [ret |-> Some(k), panic |-> None, kernels |-> [ks EXCEPT ![k] = rc],
              thread_kernel |-> s.thread_kernel]

\* Kernel::new on thread t, the new Kernel placed in the free slot k: the Rc
\* is made first, then set_kernel is called. If set_kernel panics, the
\* unwinding drops the Rc, the only one of the new Kernel, which runs its Drop.
Kernel_new(tk, ks, t, k, name) ==
    LET rc == [live |-> TRUE, name |-> name, thread |-> t, strong |-> 1]
        s  == set_kernel(tk, [ks EXCEPT ![k] = rc], t, k)
    IN  IF s.panic # None
        THEN [ret |-> None, panic |-> s.panic, kernels |-> ks,
              thread_kernel |-> drop(s.thread_kernel, t)]
        ELSE [ret |-> Some(k), panic |-> None, kernels |-> [ks EXCEPT ![k] = rc],
              thread_kernel |-> s.thread_kernel]

InitThreads ==
    /\ kernels = [k \in KernelIds |-> NoKernel]
    /\ thread_kernel = [t \in Threads |-> 0]
    /\ cycles = 0
    /\ given = [k \in KernelIds |-> ""]
    /\ klast = [op |-> "none"]

\* A test on thread t calls Kernel::new(name); a panic is caught by the test
\* (std::panic::catch_unwind), so the thread goes on.
New(t, name) ==
    /\ \E k \in KernelIds :
          /\ ~kernels[k].live
          /\ \A j \in KernelIds : j < k => kernels[j].live
          /\ LET r == Kernel_new(thread_kernel, kernels, t, k, name)
             IN  /\ kernels' = r.kernels
                 /\ thread_kernel' = r.thread_kernel
                 /\ given' = IF r.ret # None THEN [given EXCEPT ![k] = name]
                              ELSE given
                 /\ klast' = [op |-> "new", thread |-> t, name |-> name,
                              prev |-> thread_kernel[t],
                              prev_name |-> IF thread_kernel[t] = 0 THEN ""
                                            ELSE kernels[thread_kernel[t]].name,
                              after_release |-> /\ klast.op = "release"
                                                /\ klast.thread = t
                                                /\ klast.final,
                              ret |-> r.ret, panic |-> r.panic]
    /\ UNCHANGED cycles
    /\ UNCHANGED <<qvars, bvars, svars, fvars>>

\* Rc::clone of a handle, on the thread that owns it (Rc is not Send).
Clone(t, k) ==
    /\ kernels[k].live
    /\ kernels[k].thread = t
    /\ kernels[k].strong < MaxRc
    /\ kernels' = [kernels EXCEPT ![k].strong = @ + 1]
    /\ klast' = [op |-> "clone", thread |-> t, kernel |-> k,
                 prev |-> thread_kernel[t]]
    /\ UNCHANGED <<thread_kernel, cycles, given>>
    /\ UNCHANGED <<qvars, bvars, svars, fvars>>

\* One handle of kernel k is released; releasing the last one drops the Kernel.
Release(t, k) ==
    /\ kernels[k].live
    /\ kernels[k].thread = t
    /\ IF kernels[k].strong = 1
       THEN /\ kernels' = [kernels EXCEPT ![k] = NoKernel]
            /\ thread_kernel' = drop(thread_kernel, t)
            /\ cycles' = IF cycles < 2 THEN cycles + 1 ELSE cycles
            /\ given' = [given EXCEPT ![k] = ""]
       ELSE /\ kernels' = [kernels EXCEPT ![k].strong = @ - 1]
            /\ UNCHANGED <<thread_kernel, cycles, given>>
    /\ klast' = [op |-> "release", thread |-> t, kernel |-> k,
                 prev |-> thread_kernel[t],
                 final |-> kernels[k].strong = 1]
    /\ UNCHANGED <<qvars, bvars, svars, fvars>>

\* report_leaked is called on kernel k (by the crate's own test, through a
\* handle): it panics and never returns; the caller catches the panic.
ReportLeaked(t, k) ==
    /\ kernels[k].live
    /\ kernels[k].thread = t
    /\ klast' = [op |-> "report_leaked", thread |-> t, kernel |-> k,
                 ret |-> None,
                 panic |-> Some(report_leaked(kernels[k].name))]
    /\ UNCHANGED <<kernels, thread_kernel, cycles, given>>
    /\ UNCHANGED <<qvars, bvars, svars, fvars>>

NextThreads ==
    \/ \E t \in Threads, name \in Names : New(t, name)
    \/ \E t \in Threads, k \in KernelIds : Clone(t, k)
    \/ \E t \in Threads, k \in KernelIds : Release(t, k)
    \/ \E t \in Threads, k \in KernelIds : ReportLeaked(t, k)


\* ------------------------------------------------------------------------
\* executor::block_on
\* ------------------------------------------------------------------------

\* The task block_on polls: the one it was given.
block_on_polls(task) ==
    task

\* A variant of block_on_after_poll that returns after the first poll, ready
\* or not.
block_on_after_poll_returns(result) ==
    "return"

\* What block_on does with a poll's result: a waiting task makes it issue the
\* blocking yield trap and poll again, a complete one makes it return.
block_on_after_poll(result) ==
    IF result = Pending THEN "yield" ELSE "return"

InitBlockOn ==
    /\ bpc = "idle"
    /\ btask = ""
    /\ bret = None
    /\ events = <<>>

NumEvents(kind) ==
    Cardinality({i \in DOMAIN events : events[i].kind = kind})

\* block_on(task) is called (by panic_handler or cycle_leds with their blink
\* loop, or by an application with a task of its own).
BlockOn(task) ==
    /\ bpc \in {"idle", "returned"}
    /\ NumEvents("start") < MaxBlockOn
    /\ bpc' = "poll"
    /\ btask' = task
    /\ events' = Append(events, [kind |-> "start", of |-> task])
    /\ UNCHANGED bret
    /\ UNCHANGED <<qvars, kvars, svars, fvars>>

\* One poll of the task: it reports that it waits for a kernel event, or that
\* it is complete with value v.
Poll(result) ==
    /\ bpc = "poll"
    /\ NumEvents("poll") < MaxPolls
    /\ LET next == block_on_after_poll(result)
       IN  /\ bpc' = IF next = "return" THEN "returned" ELSE next
           /\ bret' = IF next = "return" THEN result ELSE bret
           /\ events' = events
                  \o <<[kind |-> "poll", of |-> btask,
                        polled |-> block_on_polls(btask), result |-> result]>>
                  \o (IF next = "return"
                      THEN <<[kind |-> "return", of |-> btask, value |-> result]>>
                      ELSE <<>>)
    /\ UNCHANGED btask
    /\ UNCHANGED <<qvars, kvars, svars, fvars>>

\* The blocking yield trap: the process is suspended until the kernel delivers
\* an event, then block_on goes on.
Yield ==
    /\ bpc = "yield"
    /\ bpc' = "poll"
    /\ events' = Append(events, [kind |-> "yield", of |-> btask])
    /\ UNCHANGED <<btask, bret>>
    /\ UNCHANGED <<qvars, kvars, svars, fvars>>

NextBlockOn ==
    \/ \E task \in Tasks : BlockOn(task)
    \/ \E result \in {Pending} \cup {Ready(v) : v \in Values} : Poll(result)
    \/ Yield

\* ------------------------------------------------------------------------
\* Raw system calls on ARM (runtime/src/syscalls_impl_arm.rs)
\* ------------------------------------------------------------------------

\* The svc instruction: the kernel's trap handler runs on the registers and
\* returns to the instruction after it.
svc(regs, handler) ==
    [r \in RegNames |-> IF handler[r] = None THEN regs[r] ELSE handler[r][1]]

\* syscall1: r0 is loaded from the argument; r0 and r1 are read back.  r1 is
\* an output only: going in it holds whatever the register held.
syscall1(regs, args, handler) ==
    LET loaded == [regs EXCEPT !["r0"] = args[1]]
        after  == svc(loaded, handler)
    IN  <<after["r0"], after["r1"]>>

\* A variant of syscall2 that reads the two result registers back in the
\* opposite order.
syscall2_swapped(regs, args, handler) ==
    LET loaded == [regs EXCEPT !["r0"] = args[1], !["r1"] = args[2]]
        after  == svc(loaded, handler)
    IN  <<after["r1"], after["r0"]>>

\* syscall2: r0 and r1 are loaded from the arguments and read back.
syscall2(regs, args, handler) ==
    LET loaded == [regs EXCEPT !["r0"] = args[1], !["r1"] = args[2]]
        after  == svc(loaded, handler)
    IN  <<after["r0"], after["r1"]>>

\* syscall4: r0..r3 are loaded from the arguments and read back.
syscall4(regs, args, handler) ==
    LET loaded == [regs EXCEPT !["r0"] = args[1], !["r1"] = args[2],
                               !["r2"] = args[3], !["r3"] = args[4]]
        after  == svc(loaded, handler)
    IN  <<after["r0"], after["r1"], after["r2"], after["r3"]>>

InitSyscalls ==
    sc = [op |-> "none", pc |-> "none"]

\* The registers a call of n arguments finds: those it does not load hold
\* any words; those it loads are shown as 0 here, they are overwritten.
RegsBefore(n) ==
    {regs \in [RegNames -> Words] : \A i \in 1..n : regs[Regs[i]] = 0}

\* RawSyscalls::syscall1::<CLASS>([r0]) is called and reaches its svc.
Syscall1(class, args, regs) ==
    /\ sc.pc # "svc"
    /\ sc' = [op |-> "syscall1", pc |-> "svc", class |-> class, args |-> args,
              before |-> regs]
    /\ UNCHANGED <<qvars, kvars, bvars, fvars>>

\* RawSyscalls::syscall2::<CLASS>([r0, r1]) is called and reaches its svc.
Syscall2(class, args, regs) ==
    /\ sc.pc # "svc"
    /\ sc' = [op |-> "syscall2", pc |-> "svc", class |-> class, args |-> args,
              before |-> regs]
    /\ UNCHANGED <<qvars, kvars, bvars, fvars>>

\* RawSyscalls::syscall4::<CLASS>([r0, r1, r2, r3]) is called and reaches
\* its svc.
Syscall4(class, args, regs) ==
    /\ sc.pc # "svc"
    /\ sc' = [op |-> "syscall4", pc |-> "svc", class |-> class, args |-> args,
              before |-> regs]
    /\ UNCHANGED <<qvars, kvars, bvars, fvars>>

\* The trap is taken, the kernel's handler does `handler` to the registers,
\* and the call returns the registers it reads back.
SvcReturn(handler) ==
    /\ sc.pc = "svc"
    /\ sc' = [op |-> sc.op, pc |-> "returned", class |-> sc.class,
              args |-> sc.args, before |-> sc.before, handler |-> handler,
              ret |-> CASE sc.op = "syscall1" ->
                             syscall1(sc.before, sc.args, handler)
                        [] sc.op = "syscall2" ->
                             syscall2(sc.before, sc.args, handler)
                        [] sc.op = "syscall4" ->
                             syscall4(sc.before, sc.args, handler)]
    /\ UNCHANGED <<qvars, kvars, bvars, fvars>>

NextSyscalls ==
    \/ \E class \in Classes, args \in [1..1 -> Words], regs \in RegsBefore(1) :
            Syscall1(class, args, regs)
    \/ \E class \in Classes, args \in [1..2 -> Words], regs \in RegsBefore(2) :
            Syscall2(class, args, regs)
    \/ \E class \in Classes, args \in [1..4 -> Words], regs \in RegsBefore(4) :
            Syscall4(class, args, regs)
    \/ \E handler \in Handlers : SvcReturn(handler)

\* ------------------------------------------------------------------------
\* Program start and the fatal-error handlers (src/lang_items.rs)
\* ------------------------------------------------------------------------

\* A variant of start that reports main's error.
start_reports_main(main_result) ==
    IF main_result = "Err" THEN 1 ELSE StartReturns

\* start: main's value is dropped and 0 is returned.
start(main_result) ==
    StartReturns

\* debug::low_level_status_code: one status code goes out on the debug
\* channel (a no-op on a board without one); nothing is returned.
low_level_status_code(trace, code) ==
    Append(trace, Event("diag", code))

\* The frame of a handler when block_on first polls its async block: no
\* timer yet, `trace` the events so far.
Frame(n, trace) ==
    [pc |-> "acquire", leds |-> n, timer |-> None, led |-> 0, iter |-> 0,
     pend |-> 0, trace |-> trace, ignored |-> {}]

\* A variant of panic_handler's entry that signals nothing.
panic_handler_enter_silent(n) ==
    Frame(n, <<>>)

\* panic_handler up to the first poll of its async block: the status code
\* is signalled, then block_on is called.
panic_handler_enter(n) ==
    Frame(n, low_level_status_code(<<>>, PanicStatusCode))

\* A variant of cycle_leds' entry that signals the status code as
\* panic_handler does.
cycle_leds_enter_with_diag(n) ==
    Frame(n, low_level_status_code(<<>>, PanicStatusCode))

\* cycle_leds up to the first poll of its async block: block_on is called
\* at once.
cycle_leds_enter(n) ==
    Frame(n, <<>>)

\* A variant of ignore that unwraps the result: a failure is a second fault.
ignore_unwrap(x, succeeded, what) ==
    IF succeeded THEN x ELSE [x EXCEPT !.pc = "fault"]

\* `.ok()` and `let _ =`: a failed result is dropped and the handler goes on
\* as after a success (the frame only notes which operation failed).
ignore(x, succeeded, what) ==
    IF succeeded THEN x ELSE [x EXCEPT !.ignored = @ \cup {what}]

\* A variant of if_let_timer_sleep that sleeps whether or not there is a
\* timer.
if_let_timer_sleep_always(x, sleeping, otherwise) ==
    [x EXCEPT !.pc = sleeping, !.pend = 0,
              !.trace = Append(@, Event("sleep", SleepMs))]

\* A variant of if_let_timer_sleep that never sleeps.
if_let_timer_sleep_never(x, sleeping, otherwise) ==
    otherwise

\* `if let Some(ref timer_driver) = timer_driver { sleep(100 ms).await }`:
\* with a timer the sleep is started, without one the block is skipped.
if_let_timer_sleep(x, sleeping, otherwise) ==
    IF x.timer # None
    THEN [x EXCEPT !.pc = sleeping, !.pend = 0,
                   !.trace = Append(@, Event("sleep", SleepMs))]
    ELSE otherwise

\* A variant of loop_back in which the loop is left after one iteration: the
\* async block completes, block_on returns and unreachable!() is executed.
loop_back_break(x) ==
    [x EXCEPT !.pc = IF block_on_after_poll(Ready("unit")) = "return"
                     THEN "unreachable" ELSE "on"]

\* The end of the body of `loop`: back to its first statement.
loop_back(x) ==
    [x EXCEPT !.pc = "on", !.led = 0, !.iter = @ + 1]

\* A poll of the sleep that is awaited: a sleep still waiting makes the poll
\* of the async block return Pending, on which block_on yields; a finished
\* one (failed or not) lets the block go on to `next`.
await_sleep(x, e, yielding, next) ==
    IF e.sleep = "pending"
    THEN [x EXCEPT !.pc = IF block_on_after_poll(Pending) = "yield"
                          THEN yielding ELSE "unreachable",
                   !.pend = @ + 1]
    ELSE ignore(next, e.sleep = "ok", "sleep")

\* One step of the async block of panic_handler, the hardware answering e.
panic_handler_poll(x, e) ==
    CASE x.pc = "acquire" ->
           LET context == IF e.context THEN Some("context") ELSE None
               driver == IF context # None THEN Some("driver") ELSE None
               timer_driver == IF driver # None /\ e.activate
                               THEN Some("timer") ELSE None
               y == [x EXCEPT !.pc = "on", !.led = 0, !.timer = timer_driver,
                        !.trace = Append(@, Event("acquire",
                                     IF timer_driver # None THEN 1 ELSE 0))]
           IN  ignore(ignore(y, e.context, "create"),
                      context = None \/ e.activate, "activate")
      [] x.pc = "on" ->
           IF x.led < x.leds
           THEN ignore([x EXCEPT !.led = @ + 1,
                                 !.trace = Append(@, Event("on", x.led + 1))],
                       e.led, "on")
           ELSE if_let_timer_sleep(x, "sleep_on",
                                   [x EXCEPT !.pc = "off", !.led = 0])
      [] x.pc = "sleep_on" ->
           await_sleep(x, e, "yield_on", [x EXCEPT !.pc = "off", !.led = 0])
      [] x.pc = "off" ->
           IF x.led < x.leds
           THEN ignore([x EXCEPT !.led = @ + 1,
                                 !.trace = Append(@, Event("off", x.led + 1))],
                       e.led, "off")
           ELSE if_let_timer_sleep(x, "sleep_off", loop_back(x))
      [] x.pc = "sleep_off" ->
           await_sleep(x, e, "yield_off", loop_back(x))
      [] OTHER -> x

\* One step of the async block of cycle_leds, the hardware answering e.
cycle_leds_poll(x, e) ==
    CASE x.pc = "acquire" ->
           LET context == IF e.context THEN Some("context") ELSE None
               driver == IF context # None THEN Some("driver") ELSE None
               timer_driver == IF driver # None /\ e.activate
                               THEN Some("timer") ELSE None
               y == [x EXCEPT !.pc = "on", !.led = 0, !.timer = timer_driver,
                        !.trace = Append(@, Event("acquire",
                                     IF timer_driver # None THEN 1 ELSE 0))]
           IN  ignore(ignore(y, e.context, "create"),
                      context = None \/ e.activate, "activate")
      [] x.pc = "on" ->
           IF x.led < x.leds
           THEN ignore([x EXCEPT !.led = @ + 1,
                                 !.trace = Append(@, Event("on", x.led + 1))],
                       e.led, "on")
           ELSE if_let_timer_sleep(x, "sleep_on",
                                   [x EXCEPT !.pc = "off", !.led = 0])
      [] x.pc = "sleep_on" ->
           await_sleep(x, e, "yield_on", [x EXCEPT !.pc = "off", !.led = 0])
      [] x.pc = "off" ->
           IF x.led < x.leds
           THEN ignore([x EXCEPT !.led = @ + 1,
                                 !.trace = Append(@, Event("off", x.led + 1))],
                       e.led, "off")
           ELSE if_let_timer_sleep(x, "sleep_off", loop_back(x))
      [] x.pc = "sleep_off" ->
           await_sleep(x, e, "yield_off", loop_back(x))
      [] OTHER -> x

\* block_on's yield returns (the kernel delivered an event): the sleep that
\* was awaited is polled again.
yield_return(x) ==
    CASE x.pc = "yield_on" ->
           [x EXCEPT !.pc = "sleep_on", !.trace = Append(@, Event("yield", 0))]
      [] x.pc = "yield_off" ->
           [x EXCEPT !.pc = "sleep_off", !.trace = Append(@, Event("yield", 0))]
      [] OTHER -> x

InitFailStop ==
    /\ fstate = "NotStarted"
    /\ main_calls = 0
    /\ status = None
    /\ h = [pc |-> "none"]
    /\ twin = [pc |-> "none"]

\* The runtime's entry point calls start, which calls main.
Start ==
    /\ fstate = "NotStarted"
    /\ fstate' = "Running"
    /\ main_calls' = main_calls + 1
    /\ UNCHANGED <<status, h, twin>>
    /\ UNCHANGED <<qvars, kvars, bvars, svars>>

\* main returns main_result, and start returns.
MainReturns(main_result) ==
    /\ fstate = "Running"
    /\ fstate' = "Completed"
    /\ status' = Some([returned |-> start(main_result), main |-> main_result])
    /\ UNCHANGED <<main_calls, h, twin>>
    /\ UNCHANGED <<qvars, kvars, bvars, svars>>

\* main panics on a board with n LEDs: panic_handler is entered.
Panic(n) ==
    /\ fstate = "Running"
    /\ fstate' = "Panicked"
    /\ h' = panic_handler_enter(n)
    /\ twin' = cycle_leds_enter(n)
    /\ UNCHANGED <<main_calls, status>>
    /\ UNCHANGED <<qvars, kvars, bvars, svars>>

\* An allocation fails in main on a board with n LEDs: cycle_leds is entered.
AllocError(n) ==
    /\ fstate = "Running"
    /\ fstate' = "OutOfMemory"
    /\ h' = cycle_leds_enter(n)
    /\ twin' = panic_handler_enter(n)
    /\ UNCHANGED <<main_calls, status>>
    /\ UNCHANGED <<qvars, kvars, bvars, svars>>

PollPcs == {"acquire", "on", "sleep_on", "off", "sleep_off"}

\* The hardware answers that matter to the statement at pc: the answers to
\* operations the statement does not perform are fixed.
EnvAt(pc) ==
    {e \in Env :
        /\ pc # "acquire" => e.context /\ e.activate
        /\ pc \notin {"on", "off"} => e.led
        /\ pc \notin {"sleep_on", "sleep_off"} => e.sleep = "ok"}

\* The handler that runs takes one step of its async block, the hardware
\* answering e.
HandlerStep(e) ==
    /\ fstate \in {"Panicked", "OutOfMemory"}
    /\ h.pc \in PollPcs
    /\ h.iter < MaxBlinks
    /\ e \in EnvAt(h.pc)
    /\ e.sleep = "pending" => h.pend < MaxPending
    /\ h' = IF fstate = "Panicked" THEN panic_handler_poll(h, e)
            ELSE cycle_leds_poll(h, e)
    /\ twin' = IF fstate = "Panicked" THEN cycle_leds_poll(twin, e)
               ELSE panic_handler_poll(twin, e)
    /\ UNCHANGED <<fstate, main_calls, status>>
    /\ UNCHANGED <<qvars, kvars, bvars, svars>>

\* The yield trap block_on issued returns.
HandlerYield ==
    /\ fstate \in {"Panicked", "OutOfMemory"}
    /\ h.pc \in {"yield_on", "yield_off"}
    /\ h' = yield_return(h)
    /\ twin' = yield_return(twin)
    /\ UNCHANGED <<fstate, main_calls, status>>
    /\ UNCHANGED <<qvars, kvars, bvars, svars>>

NextFailStop ==
    \/ Start
    \/ \E main_result \in MainResults : MainReturns(main_result)
    \/ \E n \in 0..MaxLeds : Panic(n)
    \/ \E n \in 0..MaxLeds : AllocError(n)
    \/ \E e \in Env : HandlerStep(e)
    \/ HandlerYield

Init == InitQueue /\ InitThreads /\ InitBlockOn /\ InitSyscalls /\ InitFailStop

Next ==
    \/ \E e \in ExpectedSyscall : AddExpected(e)
    \/ \E c \in Calls : Syscall(c)
    \/ TakeLog

Spec == Init /\ [][Next]_vars

SpecThreads == Init /\ [][NextThreads]_vars

SpecBlockOn == Init /\ [][NextBlockOn]_vars

SpecSyscalls == Init /\ [][NextSyscalls]_vars

SpecFailStop == Init /\ [][NextFailStop]_vars

\* ------------------------------------------------------------------------
\* Properties of the queue and the log (checked under Spec)
\* ------------------------------------------------------------------------

\* C1: the expectation queue is strictly FIFO: the entries popped so far,
\* followed by the entries still queued, are exactly the entries added, in the
\* order they were added; so each entry is returned once, in insertion order,
\* and the queued entries keep their relative order.
FifoOrder ==
    /\ popped \o expected_syscalls = added
    /\ qlast.op = "call" => qlast.got = qlast.front

\* Two different entries were popped in the order they were added while a
\* third, added as well, is still queued.
FifoOrderWitness ==
    /\ Len(popped) = 2
    /\ popped[1] # popped[2]
    /\ Len(expected_syscalls) = 1
    /\ expected_syscalls[1] # popped[2]
    /\ added = popped \o expected_syscalls

\* C5: take_syscall_log is a one-shot drain: it returns every call logged
\* since the previous take, in order, and leaves the log empty; a second take
\* right after the first returns the empty log, and the two results
\* concatenated are the log as it was before the first take.
TakeDrains ==
    /\ qlast.op = "take" =>
          /\ qlast.ret = qlast.drained
          /\ syscall_log = <<>>
    /\ qlast.op = "take2" =>
          /\ qlast.first = qlast.drained
          /\ qlast.ret = <<>>
          /\ qlast.first \o qlast.ret = qlast.drained
          /\ syscall_log = <<>>

\* Two takes in a row, the first of which drained a log of two or more calls.
TakeDrainsWitness ==
    /\ qlast.op = "take2"
    /\ Len(qlast.first) >= 2
    /\ qlast.first[1] # qlast.first[2]
    /\ qlast.ret = <<>>

\* C6: every intercepted call, matched, mismatched or made with an empty
\* queue, is appended to the log: between two takes the log is the sequence
\* of the calls made, in call order.
LogIsCallsMade ==
    syscall_log = made

\* A mismatched call has just been logged behind two earlier calls.
LogIsCallsMadeWitness ==
    /\ qlast.op = "call"
    /\ qlast.outcome.kind = "panic"
    /\ Len(syscall_log) = 3
    /\ syscall_log[3] = qlast.call
    /\ syscall_log[1] # syscall_log[2]

\* C7: a call made while the queue is nonempty consults the front entry; if
\* the call does not match it the call panics (no value is returned, no entry
\* is skipped to find a match), and if it matches the call returns that
\* entry's canned response.
MismatchPanics ==
    (qlast.op = "call" /\ qlast.front # None) =>
        /\ qlast.got = qlast.front
        /\ IF qlast.front[1].call = qlast.call
           THEN qlast.outcome = [kind |-> "response", value |-> qlast.front[1].response]
           ELSE qlast.outcome = [kind |-> "panic"]

\* A call that mismatched the front entry although a matching entry was
\* queued right behind it.
MismatchPanicsWitness ==
    /\ qlast.op = "call"
    /\ qlast.front # None
    /\ qlast.front[1].call # qlast.call
    /\ qlast.outcome.kind = "panic"
    /\ expected_syscalls # <<>>
    /\ expected_syscalls[1].call = qlast.call

\* C8: a call made while the queue is empty leaves it empty and consumes
\* nothing: pop_expected_syscall yields None, and the number of entries popped
\* is the number of calls made while the queue was nonempty, so entries added
\* later are all still there.
EmptyQueueUntouched ==
    /\ (qlast.op = "call" /\ qlast.front = None) =>
          /\ qlast.got = None
          /\ expected_syscalls = <<>>
          /\ qlast.outcome = [kind |-> "passthrough"]
    /\ Len(popped) = nonempty_calls
    /\ Len(expected_syscalls) = Len(added) - nonempty_calls

\* Calls were made while the queue was empty, and the two entries added
\* afterwards are both queued.
EmptyQueueUntouchedWitness ==
    /\ ncalls >= 2
    /\ nonempty_calls = 0
    /\ qlast.op = "add"
    /\ Len(expected_syscalls) = 2
    /\ expected_syscalls = added

\* ------------------------------------------------------------------------
\* Properties of construction and teardown (checked under SpecThreads)
\* ------------------------------------------------------------------------

\* The Kernels alive on thread t: constructed there, handle not yet released.
LiveKernels(t) ==
    {k \in KernelIds : kernels[k].live /\ kernels[k].thread = t}

\* C2: at most one Kernel is bound to a thread (constructed on it and not yet
\* released) in every reachable state, whatever the sequence of Kernel::new
\* calls, clones, releases and failed constructions.
AtMostOneKernelPerThread ==
    \A t \in Threads : Cardinality(LiveKernels(t)) <= 1

ThreadsIndependentStep ==
    \A t \in Threads :
        thread_kernel'[t] # thread_kernel[t] => klast'.thread = t

ThreadsIndependentState ==
    /\ \A t \in Threads :
          thread_kernel[t] # 0 =>
              /\ kernels[thread_kernel[t]].live
              /\ kernels[thread_kernel[t]].thread = t
    /\ (klast.op = "new" /\ klast.prev = 0) => klast.ret # None

ThreadsIndependent ==
    /\ []ThreadsIndependentState
    /\ [][ThreadsIndependentStep]_vars

\* Kernel::new has just succeeded on T2 while a kernel is bound to T1.
ThreadsIndependentWitness ==
    /\ klast.op = "new"
    /\ klast.thread = "T2"
    /\ klast.ret # None
    /\ thread_kernel["T1"] # 0
    /\ thread_kernel["T2"] # 0
    /\ thread_kernel["T1"] # thread_kernel["T2"]

\* C15: report_leaked on a kernel constructed with name n never returns: it
\* panics, and the panic message contains n as it was passed to Kernel::new.
ReportLeakedPanicsWithName ==
    klast.op = "report_leaked" =>
        /\ klast.ret = None
        /\ klast.panic # None
        /\ given[klast.kernel] \in Names
        /\ Contains(klast.panic[1], given[klast.kernel])
        /\ klast.panic[1] = <<"The fake::Kernel with name '", given[klast.kernel],
                              "' was never cleaned up; perhaps a Rc<Kernel> was leaked?">>

\* report_leaked has just panicked on a kernel constructed with the name "B".
ReportLeakedPanicsWithNameWitness ==
    /\ klast.op = "report_leaked"
    /\ given[klast.kernel] = "B"
    /\ klast.panic # None
    /\ Contains(klast.panic[1], "B")

\* C20: a failed Kernel::new leaves the thread's binding unchanged: after
\* Kernel::new(B) panicked because A is bound, A is still the bound kernel.
FailedNewKeepsBinding ==
    (klast.op = "new" /\ klast.ret = None) =>
        /\ klast.prev # 0
        /\ thread_kernel[klast.thread] = klast.prev

\* ------------------------------------------------------------------------
\* Properties of the raw system calls (checked under SpecSyscalls)
\* ------------------------------------------------------------------------

\* The number of arguments and of result slots of the last call.
NumArgs == CASE sc.op = "syscall1" -> 1 [] sc.op = "syscall2" -> 2 [] OTHER -> 4
NumSlots == CASE sc.op = "syscall4" -> 4 [] OTHER -> 2

\* C14: syscall1, syscall2 and syscall4 pass registers through faithfully,
\* for every class: result slot i is the final value of register r_i, so
\* where the trap handler left a register unmodified the slot equals the
\* argument passed in it, and where the handler wrote a register (r0-r1 for
\* syscall1/2, r0-r3 for syscall4) the slot carries the handler's value.
RegistersPassThrough ==
    sc.pc = "returned" =>
        /\ Len(sc.ret) = NumSlots
        /\ \A i \in 1..NumSlots :
              /\ sc.handler[Regs[i]] # None =>
                     sc.ret[i] = sc.handler[Regs[i]][1]
              /\ (sc.handler[Regs[i]] = None /\ i <= NumArgs) =>
                     sc.ret[i] = sc.args[i]
              /\ (sc.handler[Regs[i]] = None /\ i > NumArgs) =>
                     sc.ret[i] = sc.before[Regs[i]]

\* A syscall2 with two different arguments has returned them, the handler
\* having left every register unmodified.
RegistersPassThroughWitness ==
    /\ sc.op = "syscall2"
    /\ sc.pc = "returned"
    /\ \A r \in RegNames : sc.handler[r] = None
    /\ sc.args = <<0, 1>>
    /\ sc.ret = <<0, 1>>

\* ------------------------------------------------------------------------
\* Properties of program start and the handlers (checked under SpecFailStop)
\* ------------------------------------------------------------------------

InHandler == fstate \in {"Panicked", "OutOfMemory"}

\* Where a handler is while it runs its blink loop under block_on.
LoopPcs == PollPcs \cup {"yield_on", "yield_off"}

\* The frames of panic_handler and of cycle_leds, whichever of them runs.
PanicFrame == IF fstate = "Panicked" THEN h ELSE twin
OomFrame == IF fstate = "Panicked" THEN twin ELSE h

\* The events of a trace that are of the kinds in K.
OfKinds(trace, K) == SelectSeq(trace, LAMBDA ev : ev.kind \in K)

\* The LED commands and sleeps of a trace.
Phases(trace) == OfKinds(trace, {"on", "off", "sleep"})

IsPrefix(a, b) == Len(a) <= Len(b) /\ SubSeq(b, 1, Len(a)) = a

\* One round of blinking n LEDs: all on, all off, each phase followed by one
\* 100 ms sleep if there is a timer.
Pause(timer) == IF timer THEN <<Event("sleep", 100)>> ELSE <<>>
Round(n, timer) ==
    [i \in 1..n |-> Event("on", i)] \o Pause(timer)
        \o [i \in 1..n |-> Event("off", i)] \o Pause(timer)

RECURSIVE Rounds(_, _, _)
Rounds(n, timer, k) ==
    IF k = 0 THEN <<>> ELSE Round(n, timer) \o Rounds(n, timer, k - 1)

\* C19: start invokes main exactly once and, when main returns, returns
\* status 0 whatever main returned; Completed is entered at most once and
\* nothing runs after it.
StartRunsMainOnceState ==
    /\ main_calls = IF fstate = "NotStarted" THEN 0 ELSE 1
    /\ fstate = "Completed" <=> status # None
    /\ status # None => status[1].returned = 0

StartRunsMainOnceStep ==
    /\ main_calls' >= main_calls
    /\ fstate = "Completed" =>
          /\ fstate' = "Completed"
          /\ main_calls' = main_calls
          /\ status' = status
    /\ fstate' = "Completed" => fstate \in {"Running", "Completed"}

StartRunsMainOnce ==
    /\ []StartRunsMainOnceState
    /\ [][StartRunsMainOnceStep]_vars

\* start has returned 0 although main returned an error.
StartRunsMainOnceWitness ==
    /\ fstate = "Completed"
    /\ main_calls = 1
    /\ status = Some([returned |-> 0, main |-> "Err"])

\* C11: Panicked and OutOfMemory are terminal: once panic_handler or
\* cycle_leds is entered, start never returns, the state is never left, and
\* the unreachable!() after block_on is never executed, with or without a
\* timer and for any number of LEDs, zero included.
HandlersNeverReturnState ==
    InHandler =>
        /\ status = None
        /\ h.pc # "unreachable"
        /\ h.leds \in 0..MaxLeds

HandlersNeverReturnStep ==
    InHandler => fstate' = fstate /\ status' = None /\ main_calls' = main_calls

HandlersNeverReturn ==
    /\ []HandlersNeverReturnState
    /\ [][HandlersNeverReturnStep]_vars

\* cycle_leds has gone round its loop as often as the model lets it, on a
\* board with no LED and no timer.
HandlersNeverReturnWitness ==
    /\ fstate = "OutOfMemory"
    /\ h.leds = 0
    /\ h.timer = None
    /\ h.pc = "on"
    /\ h.iter = MaxBlinks

\* C12: a failure of the timer context creation, of the driver activation,
\* of an LED on() or off() or of a sleep inside a handler is no second
\* fault: the handler stays in its loop and passes on to the next
\* statement.
FailuresIgnoredState ==
    InHandler => h.pc \in LoopPcs

FailuresIgnoredStep ==
    (InHandler /\ h'.ignored # h.ignored) =>
        /\ h.ignored \subseteq h'.ignored
        /\ h'.pc \in LoopPcs
        /\ h'.pc # h.pc \/ h'.led # h.led

FailuresIgnored ==
    /\ []FailuresIgnoredState
    /\ [][FailuresIgnoredStep]_vars

\* panic_handler has completed a round of its loop in which an on(), an
\* off() and a sleep failed.
FailuresIgnoredWitness ==
    /\ fstate = "Panicked"
    /\ {"on", "off", "sleep"} \subseteq h.ignored
    /\ h.iter >= 1

BlinkAlternates ==
    InHandler =>
        IsPrefix(Phases(h.trace), Rounds(h.leds, h.timer # None, MaxBlinks + 1))

\* A handler with a timer has switched two LEDs on, slept, switched them off
\* and slept, and is at the start of the next round.
BlinkAlternatesWitness ==
    /\ InHandler
    /\ h.timer # None
    /\ h.leds = 2
    /\ h.iter = 1
    /\ h.pc = "on"
    /\ Len(Phases(h.trace)) = 6

\* C17: panic_handler emits the status code exactly once, before any timer
\* acquisition, any LED command and any yield, and never again during the
\* blink loop.
DiagOnceFirst ==
    fstate = "Panicked" =>
        /\ h.trace # <<>>
        /\ h.trace[1] = Event("diag", 1)
        /\ \A i \in 2..Len(h.trace) : h.trace[i].kind # "diag"

\* panic_handler has acquired the timer, yielded and completed a round.
DiagOnceFirstWitness ==
    /\ fstate = "Panicked"
    /\ h.timer # None
    /\ h.iter >= 1
    /\ OfKinds(h.trace, {"yield"}) # <<>>
    /\ OfKinds(h.trace, {"on"}) # <<>>

\* C18 as stated: if the timer cannot be acquired the loop performs no LED
\* on/off operations and no sleeps.
NoTimerNothingObservable ==
    (InHandler /\ h.pc # "acquire" /\ h.timer = None) =>
        Phases(h.trace) = <<>>

\* C18, amended: if the timer cannot be acquired the loop starts no sleep and
\* never yields, but it still switches every LED on and off in alternating
\* phases; it does nothing observable only on a board without LEDs.
NoTimerNoSleeps ==
    (InHandler /\ h.pc # "acquire" /\ h.timer = None) =>
        /\ OfKinds(h.trace, {"sleep", "yield"}) = <<>>
        /\ h.pc \in {"on", "off"}
        /\ IsPrefix(Phases(h.trace), Rounds(h.leds, FALSE, MaxBlinks + 1))
        /\ h.leds = 0 => Phases(h.trace) = <<>>
        /\ (h.leds > 0 /\ h.iter >= 1) => Phases(h.trace) # <<>>

\* A handler without a timer has switched two LEDs on and off.
NoTimerNoSleepsWitness ==
    /\ InHandler
    /\ h.timer = None
    /\ h.leds = 2
    /\ h.iter >= 1
    /\ OfKinds(h.trace, {"on"}) # <<>>
    /\ OfKinds(h.trace, {"off"}) # <<>>

\* ------------------------------------------------------------------------
\* Properties of block_on (checked under SpecBlockOn)
\* ------------------------------------------------------------------------

\* C10: block_on never returns early: it returns only right after a poll of
\* its task reported completion, and returns that poll's value; every poll
\* that reports "waiting" is followed by exactly one yield trap and then by
\* the next poll, and every poll is a poll of the task block_on was given.
BlockOnNeverReturnsEarly ==
    /\ \A i \in DOMAIN events :
          /\ events[i].kind = "return" =>
                /\ i > 1
                /\ events[i - 1].kind = "poll"
                /\ events[i - 1].result # Pending
                /\ events[i - 1].result = events[i].value
                /\ events[i - 1].of = events[i].of
          /\ (events[i].kind = "poll" /\ events[i].result = Pending) =>
                /\ i < Len(events) => events[i + 1].kind = "yield"
                /\ i + 1 < Len(events) =>
                      /\ events[i + 2].kind = "poll"
                      /\ events[i + 2].of = events[i].of
          /\ (events[i].kind = "poll" /\ events[i].result # Pending) =>
                i < Len(events) /\ events[i + 1].kind = "return"
          /\ events[i].kind = "yield" =>
                /\ i > 1
                /\ events[i - 1].kind = "poll"
                /\ events[i - 1].result = Pending
          /\ events[i].kind = "poll" => events[i].polled = events[i].of
    /\ bpc = "returned" =>
          /\ events # <<>>
          /\ events[Len(events)].kind = "return"
          /\ bret = events[Len(events)].value
          /\ bret # Pending

\* block_on has returned v2 after its task reported "waiting" twice, with one
\* yield trap after each of the two polls.
BlockOnNeverReturnsEarlyWitness ==
    /\ bpc = "returned"
    /\ bret = Ready("v2")
    /\ Len(events) = 7
    /\ events[2].kind = "poll" /\ events[2].result = Pending
    /\ events[3].kind = "yield"
    /\ events[4].kind = "poll" /\ events[4].result = Pending
    /\ events[5].kind = "yield"
    /\ events[6].kind = "poll" /\ events[6].result = Ready("v2")

====
